---- MODULE Spec2Model ----
(***************************************************************************)
(* The research pipeline of ScholarAI.py: split a question into subtopics, *)
(* research every subtopic, let a judge ask for up to two more research    *)
(* passes, synthesize a report.                                            *)
(*                                                                         *)
(* A Python str is a sequence of one-character strings.  The text of a     *)
(* provider reply is a sequence of lexemes: single characters, and for the *)
(* split reply also whole Python tokens ("[", "'a'", "os.getcwd()").       *)
(***************************************************************************)
EXTENDS Integers, Sequences, FiniteSets, TLC

\* Longest list literal among the split replies.
MaxSubtopics == 3
\* Longest judge reply of the exhaustive judge specification.
MaxReplyLen == 4
\* range(2): the number of loop iterations of research_pipeline.
MaxExtraPasses == 2

VARIABLES
    user_query,   \* the argument of research_pipeline
    pc,           \* the position of the research_pipeline coroutine
    subtopics,    \* the value eval returned (a Python object), None before
    tasks,        \* the tasks asyncio.gather made for the current pass
    findings,     \* the list asyncio.gather returned last
    loopIter,     \* how many iterations of `for _ in range(2)` have begun
    response,     \* the text the judge call returned, while the verdict is used
    verdict,      \* the value needs_more_research returned last
    final_report, \* the synthesizer's result
    returned,     \* TRUE once research_pipeline returned its triple
    error,        \* the exception that ended the run, "none" otherwise
    codeRan,      \* TRUE once eval has run a call found in the reply
    inflight,     \* the provider calls issued and not yet answered
    calls,        \* history: the number of provider calls issued
    passes,       \* history: the number of research passes begun
    joined,       \* history: the number of research passes joined
    peak,         \* history: the most provider calls in flight at once
    verdicts,     \* history: the verdicts of the judge, in order
    splitText,    \* history: the provider's reply to the split prompt
    answers,      \* history: per index, the last research call answered
    log           \* history: the provider calls and their outcomes

vars == <<user_query, pc, subtopics, tasks, findings, loopIter, response,
          verdict, final_report, returned, error, codeRan, inflight, calls,
          passes, joined, peak, verdicts, splitText, answers, log>>

----------------------------------------------------------------------------
(* str.strip and str.lower *)

Whitespace == {" ", "\n", "\t"}

RECURSIVE lstrip(_)
lstrip(s) ==
    IF s # <<>> /\ Head(s) \in Whitespace THEN lstrip(Tail(s)) ELSE s

RECURSIVE rstrip(_)
rstrip(s) ==
    IF s # <<>> /\ s[Len(s)] \in Whitespace
    THEN rstrip(SubSeq(s, 1, Len(s) - 1))
    ELSE s

strip(s) == rstrip(lstrip(s))

lowerChar(c) ==
    CASE c = "Y" -> "y"
      [] c = "E" -> "e"
      [] c = "S" -> "s"
      [] c = "N" -> "n"
      [] c = "O" -> "o"
      [] OTHER -> c

lowerNothing(s) == s

lower(s) == [i \in 1..Len(s) |-> lowerChar(s[i])]

----------------------------------------------------------------------------
(* Python objects and eval *)

PyStr(chars) == [ty |-> "str", val |-> chars]
PyInt(lex) == [ty |-> "int", val |-> <<lex>>]
PyBool == [ty |-> "bool", val |-> <<>>]
PyType(lex) == [ty |-> "type", val |-> <<lex>>]
PyList(items) == [ty |-> "list", val |-> items]
None == [ty |-> "none", val |-> <<>>]

StrLiterals == <<"'a'", "'b'", "'c'", "'d'", "'e'", "'ab'">>
StrChars == <<(<<"a">>), (<<"b">>), (<<"c">>), (<<"d">>), (<<"e">>), (<<"a", "b">>)>>
IntLiterals == {"7"}
Names == {"a"}
Builtins == {"list"}
CallExprs == {"os.getcwd()"}

StrValue(lex) ==
    StrChars[CHOOSE i \in 1..Len(StrLiterals) : StrLiterals[i] = lex]

\* One token of the expression grammar: its kind, and for a literal its value.
Token(lex) ==
    CASE lex = "[" -> [k |-> "lbr", val |-> <<>>]
      [] lex = "]" -> [k |-> "rbr", val |-> <<>>]
      [] lex = "," -> [k |-> "comma", val |-> <<>>]
      [] lex = "not" -> [k |-> "not", val |-> <<>>]
      [] lex \in IntLiterals -> [k |-> "int", val |-> <<lex>>]
      [] lex \in Names -> [k |-> "name", val |-> <<lex>>]
      [] lex \in Builtins -> [k |-> "builtin", val |-> <<lex>>]
      [] lex \in CallExprs -> [k |-> "call", val |-> <<lex>>]
      [] lex \in {StrLiterals[i] : i \in 1..Len(StrLiterals)} ->
            [k |-> "str", val |-> StrValue(lex)]
      [] OTHER -> [k |-> "bad", val |-> <<lex>>]

NotWhitespace(lex) == lex \notin Whitespace

Tokens(text) ==
    LET t == SelectSeq(text, NotWhitespace)
    IN  [i \in 1..Len(t) |-> Token(t[i])]

\* Adjacent string literals are one string.
RECURSIVE Concatenated(_)
Concatenated(ts) ==
    IF Len(ts) < 2 THEN ts
    ELSE IF ts[1].k = "str" /\ ts[2].k = "str"
         THEN Concatenated(<<[k |-> "str", val |-> ts[1].val \o ts[2].val]>>
                           \o SubSeq(ts, 3, Len(ts)))
         ELSE <<ts[1]>> \o Concatenated(Tail(ts))

IsAtom(t) == t.k \in {"str", "int", "name", "builtin", "call"}

\* atom (, atom)* with an optional trailing comma, or nothing
IsItemList(ts) ==
    \A j \in 1..Len(ts) :
        IF j % 2 = 1 THEN IsAtom(ts[j]) ELSE ts[j].k = "comma"

\* The syntax tree of an expression: an atom, `not atom`, or a list display.
Parse(text) ==
    LET ts == Concatenated(Tokens(text))
        n == Len(ts)
        inner == SubSeq(ts, 2, n - 1)
    IN  IF n = 1 /\ IsAtom(ts[1])
        THEN [ok |-> TRUE, form |-> "atom", items |-> ts]
        ELSE IF n = 2 /\ ts[1].k = "not" /\ IsAtom(ts[2])
        THEN [ok |-> TRUE, form |-> "not", items |-> <<ts[2]>>]
        ELSE IF n >= 2 /\ ts[1].k = "lbr" /\ ts[n].k = "rbr" /\ IsItemList(inner)
        THEN [ok |-> TRUE, form |-> "list",
              items |-> [j \in 1..((Len(inner) + 1) \div 2) |-> inner[2 * j - 1]]]
        ELSE [ok |-> FALSE, form |-> "none", items |-> <<>>]

AtomValue(t) ==
    CASE t.k = "str" -> PyStr(t.val)
      [] t.k = "int" -> PyInt(t.val[1])
      [] t.k = "call" -> PyStr(<<"/">>)
      [] t.k = "builtin" -> PyType(t.val[1])
      [] OTHER -> None

\* Evaluation runs left to right and stops at the first unbound name.
FirstUnbound(items) ==
    IF \E j \in 1..Len(items) : items[j].k = "name"
    THEN CHOOSE j \in 1..Len(items) :
            /\ items[j].k = "name"
            /\ \A m \in 1..(j - 1) : items[m].k # "name"
    ELSE Len(items) + 1

eval(text) ==
    LET p == Parse(text)
        stop == FirstUnbound(p.items)
        ran == \E j \in 1..Len(p.items) : j < stop /\ p.items[j].k = "call"
    IN  IF ~p.ok
        THEN [exc |-> "SyntaxError", ran |-> FALSE, value |-> None]
        ELSE IF stop <= Len(p.items)
        THEN [exc |-> "NameError", ran |-> ran, value |-> None]
        ELSE [exc |-> "none", ran |-> ran,
              value |-> CASE p.form = "atom" -> AtomValue(p.items[1])
                          [] p.form = "not" -> PyBool
                          [] OTHER ->
                             PyList([j \in 1..Len(p.items) |-> AtomValue(p.items[j])])]

\* `for s in subtopics`: the items of a list, the characters of a str.
Iterable(v) == v.ty \in {"list", "str"}

Iter(v) ==
    CASE v.ty = "list" -> v.val
      [] v.ty = "str" -> [i \in 1..Len(v.val) |-> PyStr(<<v.val[i]>>)]
      [] OTHER -> <<>>

----------------------------------------------------------------------------
(* The four functions that wrap one provider call each: what they return  *)
(* for the text the provider replied.                                      *)

split_into_subtopics(reply) == eval(strip(reply))

research_subtopic(reply) == strip(reply)

synthesize_report(reply) == strip(reply)

needs_more_research(reply) == lower(strip(reply)) = <<"y", "e", "s">>

----------------------------------------------------------------------------
(* What the provider may reply *)

Queries == {<<"q">>, <<"w", "h", "y", "?">>}

RECURSIVE ListText(_)
\* "['a', 'b', ...]" with n items
ListText(n) ==
    IF n = 0 THEN <<"[">>
    ELSE IF n = 1 THEN <<"[", StrLiterals[1]>>
    ELSE ListText(n - 1) \o <<",", " ", StrLiterals[n]>>

SplitReplies ==
    {ListText(n) \o <<"]">> : n \in 0..MaxSubtopics}
    \cup { <<" ", "[", "'a'", ",", "'b'", ",", "'c'", ",", "]", "\n">>,
           <<"not", " ", "a", " ", "list">>,
           <<"a">>,
           <<"'ab'">>,
           <<"'a'", " ", "'b'">>,
           <<"7">>,
           <<"not", " ", "7">>,
           <<"[", "7", ",", "'b'", "]">>,
           <<"[", "os.getcwd()", ",", "'b'", ",", "'c'", "]">>,
           <<"[", "os.getcwd()", ",", "a", "]">>,
           <<"[", "'a'", ",", ",", "'b'", "]">> }

ResearchReplies == { <<"p">>, <<" ", "q", "\n">> }

JudgeReplies ==
    { <<"y", "e", "s">>, <<" ", "Y", "e", "s", "\n">>, <<"n", "o">>,
      <<"y", "e", "s", ".">>, <<>> }

SynthReplies == { <<"R">>, <<"\n", "R", " ">> }

JudgeAlphabet == {"y", "e", "s", "Y", "E", "S", " ", "\n", ".", "n", "o"}

RECURSIVE TextsUpTo(_)
TextsUpTo(n) ==
    IF n = 0 THEN {<<>>}
    ELSE LET shorter == TextsUpTo(n - 1)
         IN  shorter \cup {Append(t, ch) : t \in shorter, ch \in JudgeAlphabet}

AllJudgeReplies == TextsUpTo(MaxReplyLen)

----------------------------------------------------------------------------
(* The state machine *)

Call(stage, idx, arg) ==
    [stage |-> stage, idx |-> idx, pass |-> passes, arg |-> arg]

Event(ev, c, v) ==
    [ev |-> ev, stage |-> c.stage, idx |-> c.idx, pass |-> c.pass, v |-> v]

Max(a, b) == IF a >= b THEN a ELSE b

Init ==
    /\ user_query \in Queries
    /\ pc = "start"
    /\ subtopics = None
    /\ tasks = <<>>
    /\ findings = <<>>
    /\ loopIter = 0
    /\ response = <<>>
    /\ verdict = FALSE
    /\ final_report = <<>>
    /\ returned = FALSE
    /\ error = "none"
    /\ codeRan = FALSE
    /\ inflight = {}
    /\ calls = 0
    /\ passes = 0
    /\ joined = 0
    /\ peak = 0
    /\ verdicts = <<>>
    /\ splitText = <<>>
    /\ answers = <<>>
    /\ log = <<>>

\* A provider call goes out.
Issue(c) ==
    /\ inflight' = inflight \cup {c}
    /\ calls' = calls + 1
    /\ peak' = Max(peak, Cardinality(inflight \cup {c}))
    /\ log' = Append(log, Event("call", c, "-"))

\* A provider call comes back, with a reply ("ok") or an exception ("fail").
Settle(c, ev, v) ==
    /\ inflight' = inflight \ {c}
    /\ log' = Append(log, Event(ev, c, v))
    /\ UNCHANGED <<calls, peak>>

Raise(exc) ==
    /\ pc' = "failed"
    /\ error' = exc

----------------------------------------------------------------------------
(* research_pipeline, line 116: await split_into_subtopics(user_query) *)

SplitCall ==
    /\ pc = "start"
    /\ pc' = "splitting"
    /\ Issue(Call("split", 0, <<user_query>>))
    /\ UNCHANGED <<user_query, subtopics, tasks, findings, loopIter, response,
                   verdict, final_report, returned, error, codeRan, passes,
                   joined, verdicts, splitText,
                   answers>>

SplitReturn(reply) ==
    /\ pc = "splitting"
    /\ \E c \in inflight :
          /\ c.stage = "split"
          /\ Settle(c, "ok", "-")
    /\ splitText' = reply
    /\ LET r == split_into_subtopics(reply)
       IN  /\ codeRan' = r.ran
           /\ IF r.exc = "none"
              THEN /\ subtopics' = r.value
                   /\ pc' = "fanout"
                   /\ error' = error
              ELSE /\ Raise(r.exc)
                   /\ subtopics' = subtopics
    /\ UNCHANGED <<user_query, tasks, findings, loopIter, response, verdict,
                   final_report, returned, passes, joined, verdicts,
                   answers>>

SplitFail ==
    /\ pc = "splitting"
    /\ \E c \in inflight :
          /\ c.stage = "split"
          /\ Settle(c, "fail", "-")
    /\ Raise("ProviderError")
    /\ UNCHANGED <<user_query, subtopics, tasks, findings, loopIter, response,
                   verdict, final_report, returned, codeRan, passes, joined,
                   verdicts, splitText,
                   answers>>

----------------------------------------------------------------------------
(* lines 122-123 and 129-130: one research pass *)

Task(s) == [st |-> "pending", on |-> s, pass |-> passes + 1, res |-> <<>>]

\* [research_subtopic(s) for s in subtopics], handed to asyncio.gather
StartPass ==
    /\ pc = "fanout"
    /\ IF Iterable(subtopics)
       THEN /\ tasks' = [i \in 1..Len(Iter(subtopics)) |-> Task(Iter(subtopics)[i])]
            /\ passes' = passes + 1
            /\ pc' = "researching"
            /\ error' = error
       ELSE /\ Raise("TypeError")
            /\ UNCHANGED <<tasks, passes>>
    /\ UNCHANGED <<user_query, subtopics, findings, loopIter, response, verdict,
                   final_report, returned, codeRan, inflight, calls, joined,
                   peak, verdicts, splitText, log,
                   answers>>

\* The tasks the event loop may run next.  research_subtopic never awaits:
\* client.chat.completions.create blocks the loop until the reply is there,
\* so a task starts only when no call is out, and tasks start in list order.
Runnable ==
    {i \in 1..Len(tasks) :
        /\ tasks[i].st = "pending"
        /\ inflight = {}
        /\ \A j \in 1..(i - 1) : tasks[j].st # "pending"}

ResearchCall ==
    /\ pc = "researching"
    /\ \E i \in Runnable :
          /\ tasks' = [tasks EXCEPT ![i].st = "running"]
          /\ Issue(Call("research", i, <<tasks[i].on.val>>))
    /\ UNCHANGED <<user_query, pc, subtopics, findings, loopIter, response,
                   verdict, final_report, returned, error, codeRan, passes,
                   joined, verdicts, splitText,
                   answers>>

ResearchReturn(reply) ==
    /\ pc = "researching"
    /\ \E c \in inflight :
          /\ c.stage = "research"
          /\ tasks' = [tasks EXCEPT ![c.idx].st = "done",
                                    ![c.idx].res = research_subtopic(reply)]
          /\ answers' = (c.idx :> [pass |-> c.pass, on |-> c.arg,
                                    got |-> research_subtopic(reply)]) @@ answers
          /\ Settle(c, "ok", "-")
    /\ UNCHANGED <<user_query, pc, subtopics, findings, loopIter, response,
                   verdict, final_report, returned, error, codeRan, passes,
                   joined, verdicts, splitText>>

ResearchFail ==
    /\ pc = "researching"
    /\ \E c \in inflight :
          /\ c.stage = "research"
          /\ tasks' = [tasks EXCEPT ![c.idx].st = "failed"]
          /\ Settle(c, "fail", "-")
    /\ UNCHANGED <<user_query, pc, subtopics, findings, loopIter, response,
                   verdict, final_report, returned, error, codeRan, passes,
                   joined, verdicts, splitText,
                   answers>>

\* asyncio.gather: the results in the order of the awaitables given
gatherReversed(ts) == [i \in 1..Len(ts) |-> ts[Len(ts) + 1 - i].res]

gather(ts) == [i \in 1..Len(ts) |-> ts[i].res]

AnySettled(ts) == ts = <<>> \/ \E i \in 1..Len(ts) : ts[i].st \in {"done", "failed"}

\* Every task has run by the time gather's future wakes the pipeline: the
\* tasks' steps are queued ahead of the first done-callback.
AllSettled(ts) == \A i \in 1..Len(ts) : ts[i].st \in {"done", "failed"}

NeverFailed(ts) == FALSE

AnyFailed(ts) == \E i \in 1..Len(ts) : ts[i].st = "failed"

LoopHeadOneMore == IF loopIter < MaxExtraPasses + 1 THEN "judge" ELSE "synth"

\* for _ in range(2): the body runs while iterations are left
LoopHead == IF loopIter < MaxExtraPasses THEN "judge" ELSE "synth"

Join ==
    /\ pc = "researching"
    /\ AllSettled(tasks)
    /\ IF AnyFailed(tasks)
       THEN /\ Raise("ProviderError")
            /\ UNCHANGED <<findings, joined>>
       ELSE /\ findings' = gather(tasks)
            /\ joined' = joined + 1
            /\ pc' = LoopHead
            /\ error' = error
    /\ UNCHANGED <<user_query, subtopics, tasks, loopIter, response, verdict,
                   final_report, returned, codeRan, inflight, calls, passes,
                   peak, verdicts, splitText, log,
                   answers>>

----------------------------------------------------------------------------
(* lines 126-132: the judge loop *)

JudgeCall ==
    /\ pc = "judge"
    /\ pc' = "judging"
    /\ loopIter' = loopIter + 1
    /\ Issue(Call("judge", 0, findings))
    /\ UNCHANGED <<user_query, subtopics, tasks, findings, response, verdict,
                   final_report, returned, error, codeRan, passes, joined,
                   verdicts, splitText,
                   answers>>

\* needs_more_research, lines 108-109
JudgeReturn(reply) ==
    /\ pc = "judging"
    /\ \E c \in inflight :
          /\ c.stage = "judge"
          /\ Settle(c, "ok", IF needs_more_research(reply) THEN "true" ELSE "false")
    /\ response' = reply
    /\ verdict' = needs_more_research(reply)
    /\ verdicts' = Append(verdicts, needs_more_research(reply))
    /\ pc' = "judged"
    /\ UNCHANGED <<user_query, subtopics, tasks, findings, loopIter,
                   final_report, returned, error, codeRan, passes, joined,
                   splitText,
                   answers>>

JudgeFail ==
    /\ pc = "judging"
    /\ \E c \in inflight :
          /\ c.stage = "judge"
          /\ Settle(c, "fail", "-")
    /\ Raise("ProviderError")
    /\ UNCHANGED <<user_query, subtopics, tasks, findings, loopIter, response,
                   verdict, final_report, returned, codeRan, passes, joined,
                   verdicts, splitText,
                   answers>>

BranchNoBreak(v) == "fanout"

BranchInverted(v) == IF v THEN "synth" ELSE "fanout"

\* if ...: another pass  else: break
Branch(v) == IF v THEN "fanout" ELSE "synth"

LoopBody ==
    /\ pc = "judged"
    /\ pc' = Branch(verdict)
    /\ response' = <<>>
    /\ UNCHANGED <<user_query, subtopics, tasks, findings, loopIter, verdict,
                   final_report, returned, error, codeRan, inflight, calls,
                   passes, joined, peak, verdicts, splitText, log,
                   answers>>

----------------------------------------------------------------------------
(* lines 134-135: synthesis and return *)

SynthCall ==
    /\ pc = "synth"
    /\ pc' = "synthesizing"
    /\ Issue(Call("synth", 0, findings))
    /\ UNCHANGED <<user_query, subtopics, tasks, findings, loopIter, response,
                   verdict, final_report, returned, error, codeRan, passes,
                   joined, verdicts, splitText,
                   answers>>

SynthReturn(reply) ==
    /\ pc = "synthesizing"
    /\ \E c \in inflight :
          /\ c.stage = "synth"
          /\ Settle(c, "ok", "-")
    /\ final_report' = synthesize_report(reply)
    /\ returned' = TRUE
    /\ pc' = "done"
    /\ UNCHANGED <<user_query, subtopics, tasks, findings, loopIter, response,
                   verdict, error, codeRan, passes, joined, verdicts, splitText,
                   answers>>

SynthFail ==
    /\ pc = "synthesizing"
    /\ \E c \in inflight :
          /\ c.stage = "synth"
          /\ Settle(c, "fail", "-")
    /\ Raise("ProviderError")
    /\ UNCHANGED <<user_query, subtopics, tasks, findings, loopIter, response,
                   verdict, final_report, returned, codeRan, passes, joined,
                   verdicts, splitText,
                   answers>>

----------------------------------------------------------------------------

Next ==
    \/ SplitCall
    \/ \E reply \in SplitReplies : SplitReturn(reply)
    \/ SplitFail
    \/ StartPass
    \/ ResearchCall
    \/ \E reply \in ResearchReplies : ResearchReturn(reply)
    \/ ResearchFail
    \/ Join
    \/ JudgeCall
    \/ \E reply \in JudgeReplies : JudgeReturn(reply)
    \/ JudgeFail
    \/ LoopBody
    \/ SynthCall
    \/ \E reply \in SynthReplies : SynthReturn(reply)
    \/ SynthFail

Spec == Init /\ [][Next]_vars

\* Every provider call returns or fails, and the event loop keeps running the
\* coroutine that is ready.
FairSpec == Spec /\ WF_vars(Next)

\* The judge alone, on every reply over JudgeAlphabet up to MaxReplyLen; the
\* other provider calls answer with one fixed text each.
NextJudge ==
    \/ SplitCall
    \/ SplitReturn(ListText(3) \o <<"]">>)
    \/ StartPass
    \/ ResearchCall
    \/ ResearchReturn(<<"p">>)
    \/ Join
    \/ JudgeCall
    \/ pc = "judging" /\ \E reply \in AllJudgeReplies : JudgeReturn(reply)
    \/ LoopBody
    \/ SynthCall
    \/ SynthReturn(<<"R">>)

JudgeSpec == Init /\ [][NextJudge]_vars

----------------------------------------------------------------------------
(* Properties *)

Positions == 1..Len(log)

Min(a, b) == IF a <= b THEN a ELSE b

IsCall(k, stage) == log[k].ev = "call" /\ log[k].stage = stage

RECURSIVE LeadingTrue(_)
LeadingTrue(vs) ==
    IF vs # <<>> /\ Head(vs) THEN 1 + LeadingTrue(Tail(vs)) ELSE 0

\* C1: a run that completes made 1 + (the number of leading true verdicts,
\* at most 2) research passes: 1 when the judge says false at once, 3 when it
\* always says true; no research call follows a false verdict, and the
\* synthesizer is called once, after every research and judge call.
C1_PassCount ==
    /\ pc = "done" =>
          /\ passes = 1 + Min(LeadingTrue(verdicts), 2)
          /\ joined = passes
          /\ Cardinality({k \in Positions : IsCall(k, "synth")}) = 1
    /\ \A k, m \in Positions :
          (k < m /\ log[k].stage = "judge" /\ log[k].v = "false")
             => log[m].stage # "research"
    /\ \A k, m \in Positions :
          (k < m /\ log[k].stage = "synth")
             => log[m].stage \notin {"research", "judge"}
    /\ (passes > 1 /\ verdicts # <<>>) => passes <= 1 + LeadingTrue(verdicts)

C1_ThreePasses ==
    pc = "done" /\ verdicts = <<TRUE, TRUE>> /\ passes = 3

C3_FailureIsFatal ==
    \A k \in Positions :
        (log[k].ev = "fail" /\ log[k].stage \in {"research", "judge", "synth"}) =>
            /\ ~returned
            /\ final_report = <<>>
            /\ pc \in {"researching", "failed"}
            /\ pc = "researching" =>
                  (log[k].stage = "research" /\ log[k].pass = passes /\ AnyFailed(tasks))
            /\ \A m \in Positions :
                  m > k =>
                     /\ ~IsCall(m, "synth")
                     /\ ~IsCall(m, "judge")
                     /\ ~(/\ log[m].ev = "call"
                          /\ log[m].stage = log[k].stage
                          /\ log[m].idx = log[k].idx
                          /\ log[m].pass = log[k].pass)

C3_ResearchFailed ==
    /\ pc = "failed"
    /\ error = "ProviderError"
    /\ \E k, m \in Positions :
          /\ k < m
          /\ log[k].ev = "fail"
          /\ log[k].stage = "research"
          /\ IsCall(m, "research")

\* The split reply has been received.
SplitAnswered == \E k \in Positions : log[k].stage = "split" /\ log[k].ev = "ok"

\* text, stripped, is a list display whose items are all string literals
IsStringList(text) ==
    LET p == Parse(strip(text))
    IN  /\ p.ok
        /\ p.form = "list"
        /\ \A j \in 1..Len(p.items) : p.items[j].k = "str"

\* C4: a split reply that is not a list literal of strings ends the run with
\* MalformedSplitResponse before any research call, and none of it is run as
\* code.
C4_MalformedSplitRejected ==
    (SplitAnswered /\ ~IsStringList(splitText)) =>
        /\ error = "MalformedSplitResponse"
        /\ pc = "failed"
        /\ \A k \in Positions : log[k].stage # "research"
        /\ ~codeRan

\* C5: what split_into_subtopics returns is a list of exactly 3 strings, and
\* the findings research_pipeline returns are 3.
C5_ExactlyThree ==
    /\ subtopics # None =>
          /\ subtopics.ty = "list"
          /\ Len(subtopics.val) = 3
          /\ \A i \in 1..Len(subtopics.val) : subtopics.val[i].ty = "str"
    /\ returned => Len(findings) = 3

\* A run over a list of 3 subtopics that completed with the judge false on
\* its first check.
ExampleRun ==
    /\ pc = "done"
    /\ subtopics.ty = "list"
    /\ Len(subtopics.val) = 3
    /\ verdicts # <<>>
    /\ ~verdicts[1]

\* C6 as stated: 3 subtopics, no failure, the judge false on its first check:
\* the pipeline returns 3 subtopics, 3 findings and a report after exactly
\* 1 + 3 + 1 = 5 provider calls.
C6_FiveCalls ==
    ExampleRun =>
        /\ returned
        /\ Len(Iter(subtopics)) = 3
        /\ Len(findings) = 3
        /\ calls = 5

\* C6 as amended: the same run makes exactly 1 + 3 + 1 + 1 = 6 provider calls:
\* one split, three research, one judge and one synthesizer call.
C6_SixCalls ==
    ExampleRun =>
        /\ returned
        /\ error = "none"
        /\ Len(Iter(subtopics)) = 3
        /\ Len(findings) = 3
        /\ calls = 6
        /\ Cardinality({k \in Positions : log[k].ev = "call"}) = 6
        /\ Cardinality({k \in Positions : IsCall(k, "split")}) = 1
        /\ Cardinality({k \in Positions : IsCall(k, "research")}) = 3
        /\ Cardinality({k \in Positions : IsCall(k, "judge")}) = 1
        /\ Cardinality({k \in Positions : IsCall(k, "synth")}) = 1

C6_ExampleDone ==
    /\ ExampleRun
    /\ verdicts = <<FALSE>>
    /\ final_report = <<"R">>
    /\ calls = 6

\* whitespace, then y e s in either case, then whitespace
IsYes(text) ==
    \E i \in 1..(Len(text) - 2) :
        /\ text[i] \in {"y", "Y"}
        /\ text[i + 1] \in {"e", "E"}
        /\ text[i + 2] \in {"s", "S"}
        /\ \A j \in 1..Len(text) : (j < i \/ j > i + 2) => text[j] \in Whitespace

\* C7: the judge's verdict is true exactly when its reply is "yes" up to
\* surrounding whitespace and letter case; any other reply gives false, and
\* no reply makes the run fail.
C7_YesOnly ==
    pc = "judged" =>
        /\ verdict = IsYes(response)
        /\ verdicts[Len(verdicts)] = verdict
        /\ error = "none"

C7_NormalisedYes ==
    /\ pc = "judged"
    /\ verdict
    /\ response = <<" ", "Y", "e", "S">>

\* C8: while a judge or synthesizer call is out no research call is out, every
\* task of the latest pass is done, and the findings the call was given hold
\* the result of every subtopic's research call of the latest pass.
C8_JoinBarrier ==
    \A c \in inflight :
        c.stage \in {"judge", "synth"} =>
            /\ inflight = {c}
            /\ \A i \in 1..Len(tasks) : tasks[i].st = "done"
            /\ Len(c.arg) = Len(Iter(subtopics))
            /\ \A i \in 1..Len(Iter(subtopics)) :
                  /\ i \in DOMAIN answers
                  /\ answers[i].pass = passes
                  /\ c.arg[i] = answers[i].got

C8_JudgeAfterSecondPass ==
    /\ passes = 2
    /\ Len(tasks) = 3
    /\ \E c \in inflight : c.stage = "judge"

\* C9: in a research pass over two or more subtopics, two or more research
\* calls are in flight at the same time.
C9_ResearchCallsOverlap ==
    (joined >= 1 /\ Len(Iter(subtopics)) >= 2) => peak >= 2

\* At most one provider call is ever in flight.
OneCallAtATime == Cardinality(inflight) <= 1 /\ peak <= 1

Terminated == pc \in {"done", "failed"}

\* C10: every run ends, done or failed, and the judge is consulted at most
\* twice.
C10_Terminates ==
    /\ <>Terminated
    /\ [](Cardinality({k \in Positions : IsCall(k, "judge")}) <= 2)

C10_TwoConsultations ==
    /\ pc = "done"
    /\ Cardinality({k \in Positions : IsCall(k, "judge")}) = 2

====
